---------------------------- MODULE Spec2Model ----------------------------
(***************************************************************************)
(* wheel2conda: conversion of a pure-Python wheel into conda packages.     *)
(*                                                                         *)
(* The model follows src/wheel2conda/__init__.py (builder and driver),     *)
(* src/wheel2conda/wheel.py (wheel inspector) and                          *)
(* src/wheel2conda/requirements.py (marker evaluator, requirement          *)
(* translator).  Python strings are TLA+ strings, taken apart with Head,     *)
(* Tail, SubSeq and Len, so that split, join, startswith, endswith, lower,  *)
(* replace and the ordering of strings are computed, not assumed.          *)
(***************************************************************************)
EXTENDS Integers, Sequences, FiniteSets, TLC

(***************************************************************************)
(* Python str operations                                                   *)
(***************************************************************************)

\* The printable ASCII characters in code-point order, from " " (32) to "~"
\* (126).  A tab stands in the place of the backtick (96), which a string
\* of the model cannot hold and no modelled input uses.
ASCII == " !\"#$%&'()*+,-./0123456789:;<=>?@ABCDEFGHIJKLMNOPQRSTUVWXYZ[\\]^_\tabcdefghijklmnopqrstuvwxyz{|}~"

\* s[i], for i in 1..len(s)
At(s, i) == SubSeq(s, i, i)

\* ord(c)
Ord(c) ==
  CASE c = "\t" -> 9
    [] c = "\n" -> 10
    [] c = "\r" -> 13
    [] OTHER -> 31 + (CHOOSE i \in 1..Len(ASCII) : At(ASCII, i) = c)

\* a < b on str: lexicographic by code point, a proper prefix is smaller.
StrLess(a, b) ==
  \E i \in 1..Len(b) :
    /\ Len(a) >= i - 1
    /\ SubSeq(a, 1, i - 1) = SubSeq(b, 1, i - 1)
    /\ (Len(a) = i - 1 \/ Ord(At(a, i)) < Ord(At(b, i)))

\* s.startswith(p)
StartsWith(s, p) == Len(p) <= Len(s) /\ SubSeq(s, 1, Len(p)) = p

\* s.endswith(p)
EndsWith(s, p) ==
  Len(p) <= Len(s) /\ SubSeq(s, Len(s) - Len(p) + 1, Len(s)) = p

\* sub in s (substring test)
IsSubstring(sub, s) ==
  \E i \in 0..(Len(s) - Len(sub)) : SubSeq(s, i + 1, i + Len(sub)) = sub

\* s.count(c) for a one-character c
Count(s, c) == Cardinality({i \in 1..Len(s) : At(s, i) = c})

\* c.lower() for one character
LowerChar(c) ==
  LET o == Ord(c) IN IF o >= 65 /\ o <= 90 THEN At(ASCII, o + 32 - 31) ELSE c

\* s.lower(), a half of the string at a time
RECURSIVE lower(_)
lower(s) ==
  IF Len(s) = 0 THEN ""
  ELSE IF Len(s) = 1 THEN LowerChar(s)
  ELSE lower(SubSeq(s, 1, Len(s) \div 2))
       \o lower(SubSeq(s, Len(s) \div 2 + 1, Len(s)))

\* s.replace(c, '') for a one-character c, a half of the string at a time
RECURSIVE Remove(_, _)
Remove(s, c) ==
  IF Len(s) = 0 THEN ""
  ELSE IF Len(s) = 1 THEN (IF s = c THEN "" ELSE s)
  ELSE Remove(SubSeq(s, 1, Len(s) \div 2), c)
       \o Remove(SubSeq(s, Len(s) \div 2 + 1, Len(s)), c)

\* The index of the first c in s, 0 when there is none (s.find(c) + 1).
Find(s, c) ==
  IF \E i \in 1..Len(s) : At(s, i) = c
  THEN CHOOSE i \in 1..Len(s) :
         At(s, i) = c /\ \A j \in 1..(i - 1) : At(s, j) # c
  ELSE 0

\* s.split(c): the pieces between the occurrences of c, empty pieces kept.
RECURSIVE Split(_, _)
Split(s, c) ==
  LET i == Find(s, c) IN
  IF i = 0 THEN <<s>>
  ELSE <<SubSeq(s, 1, i - 1)>> \o Split(SubSeq(s, i + 1, Len(s)), c)

\* s.split(c, 1): at most one split, at the first c.
Split1(s, c) ==
  LET i == Find(s, c) IN
  IF i = 0 THEN <<s>>
  ELSE <<SubSeq(s, 1, i - 1), SubSeq(s, i + 1, Len(s))>>

\* s.strip(), for the blanks and line ends the modelled files hold
IsSpace(c) == c \in {" ", "\n", "\r", "\t"}

RECURSIVE LStrip(_)
LStrip(s) == IF s # "" /\ IsSpace(Head(s)) THEN LStrip(Tail(s)) ELSE s

RECURSIVE RStrip(_)
RStrip(s) ==
  IF s # "" /\ IsSpace(At(s, Len(s)))
  THEN RStrip(SubSeq(s, 1, Len(s) - 1)) ELSE s

strip(s) == LStrip(RStrip(s))

\* sep.join(parts)
RECURSIVE Join(_, _)
Join(sep, parts) ==
  IF parts = <<>> THEN ""
  ELSE IF Len(parts) = 1 THEN parts[1]
  ELSE parts[1] \o sep \o Join(sep, Tail(parts))

\* str(n) for n >= 0
RECURSIVE IntToStr(_)
IntToStr(n) ==
  IF n < 10 THEN At("0123456789", n + 1)
  ELSE IntToStr(n \div 10) \o At("0123456789", (n % 10) + 1)

\* posixpath.join(a, *p)
RECURSIVE posixpath_join(_, _)
posixpath_join(a, p) ==
  IF p = <<>> THEN a
  ELSE LET b == Head(p)
           path == IF StartsWith(b, "/") THEN b
                   ELSE IF a = "" \/ EndsWith(a, "/") THEN a \o b
                   ELSE a \o "/" \o b
       IN posixpath_join(path, Tail(p))

\* The component stack of posixpath.normpath: "" and "." are dropped, ".."
\* removes the component before it unless there is none to remove.
RECURSIVE NormComps(_, _, _)
NormComps(comps, acc, rooted) ==
  IF comps = <<>> THEN acc
  ELSE LET c == Head(comps) IN
    IF c = "" \/ c = "." THEN NormComps(Tail(comps), acc, rooted)
    ELSE IF c # ".."
            \/ (~rooted /\ acc = <<>>)
            \/ (acc # <<>> /\ acc[Len(acc)] = "..")
      THEN NormComps(Tail(comps), Append(acc, c), rooted)
    ELSE IF acc # <<>>
      THEN NormComps(Tail(comps), SubSeq(acc, 1, Len(acc) - 1), rooted)
    ELSE NormComps(Tail(comps), acc, rooted)

\* posixpath.normpath(path)
posixpath_normpath(path) ==
  IF path = "" THEN "."
  ELSE LET slashes == IF ~StartsWith(path, "/") THEN ""
                      ELSE IF StartsWith(path, "//") /\ ~StartsWith(path, "///")
                      THEN "//"
                      ELSE "/"
           comps == NormComps(Split(path, "/"), <<>>, slashes # "")
           res == slashes \o Join("/", comps)
       IN IF res = "" THEN "." ELSE res

(***************************************************************************)
(* Errors.  An operation that raises returns the exception in its err      *)
(* field; the driver's err variable holds the exception that ended the run.*)
(***************************************************************************)

NoError == [type |-> "", msg |-> ""]

Raise(type, msg) == [type |-> type, msg |-> msg]

(***************************************************************************)
(* The extracted wheel: a directory tree.  The children of a directory are *)
(* kept in the order the operating system lists them (os.scandir, which    *)
(* Path.iterdir and os.walk follow); that order is arbitrary, and is an    *)
(* input.  The text files of .dist-info are kept by the wheel as lines     *)
(* (METADATA, WHEEL), csv rows (RECORD) and option lines (the              *)
(* console_scripts section of entry_points.txt).                           *)
(***************************************************************************)

File(name) == [name |-> name, is_dir |-> FALSE, children |-> <<>>]

Dir(name, children) == [name |-> name, is_dir |-> TRUE, children |-> children]

\* Whether directory node d lists a regular file called name.
HasFile(d, name) ==
  \E i \in 1..Len(d.children) :
    d.children[i].name = name /\ ~d.children[i].is_dir

(***************************************************************************)
(* src/wheel2conda/wheel.py                                                *)
(***************************************************************************)

\* dict.setdefault(k, []).append(v) on a mapping from keys to lists
DictAppend(d, k, v) ==
  IF k \in DOMAIN d THEN [d EXCEPT ![k] = Append(@, v)] ELSE d @@ (k :> <<v>>)

\* The loop of _read_metadata over the lines still to read.
RECURSIVE ReadLines(_, _)
ReadLines(lines, res) ==
  IF lines = <<>> THEN [err |-> NoError, res |-> res]
  ELSE LET line == strip(Head(lines)) IN
    IF line = "" THEN [err |-> NoError, res |-> res]
    ELSE IF Find(line, ":") = 0
      THEN [err |-> Raise("ValueError", "not enough values to unpack"),
            res |-> res]
    ELSE LET kv == Split1(line, ":") IN
      ReadLines(Tail(lines), DictAppend(res, strip(kv[1]), strip(kv[2])))

\* _read_metadata(path), given the lines of the file at path
_read_metadata(lines) == ReadLines(lines, <<>>)

\* WheelContents.find_dist_info: the first top-level entry, in listing
\* order, whose name ends in .dist-info.
RECURSIVE find_dist_info(_)
find_dist_info(root) ==
  IF root = <<>>
  THEN [err |-> Raise("BadWheelError", "Didn't find .dist-info directory"),
        x |-> File("")]
  ELSE IF EndsWith(Head(root).name, ".dist-info")
  THEN [err |-> NoError, x |-> Head(root)]
  ELSE find_dist_info(Tail(root))

\* open() of the file called name inside node d: the error it raises, if any.
OpenError(d, name) ==
  IF ~d.is_dir THEN Raise("NotADirectoryError", name)
  ELSE IF ~HasFile(d, name) THEN Raise("FileNotFoundError", name)
  ELSE NoError

\* WheelContents.__init__ after the extraction: the parsed METADATA of the
\* directory find_dist_info returns.
WheelContents_init(w) ==
  LET di == find_dist_info(w.root) IN
  IF di.err # NoError THEN [err |-> di.err, res |-> <<>>]
  ELSE IF OpenError(di.x, "METADATA") # NoError
  THEN [err |-> OpenError(di.x, "METADATA"), res |-> <<>>]
  ELSE _read_metadata(w.METADATA)

\* The loop of WheelContents.check over the top-level entries: dist_info and
\* data_dir are the entries found so far (<<>> for None).
RECURSIVE CheckEntries(_, _, _)
CheckEntries(root, dist_info, data_dir) ==
  IF root = <<>> THEN [err |-> NoError, dist_info |-> dist_info]
  ELSE LET x == Head(root)
           isdi == EndsWith(x.name, ".dist-info")
           isdata == EndsWith(x.name, ".data")
       IN
    IF isdi /\ ~x.is_dir
    THEN [err |-> Raise("BadWheelError", ".dist-info not a directory"),
          dist_info |-> dist_info]
    ELSE IF isdi /\ dist_info # <<>>
    THEN [err |-> Raise("BadWheelError", "Multiple .dist-info directories"),
          dist_info |-> dist_info]
    ELSE IF isdata /\ ~x.is_dir
    THEN [err |-> Raise("BadWheelError", ".data not a directory"),
          dist_info |-> dist_info]
    ELSE IF isdata /\ data_dir # <<>>
    THEN [err |-> Raise("BadWheelError", "Multiple .data directories"),
          dist_info |-> dist_info]
    ELSE CheckEntries(Tail(root),
                      IF isdi THEN <<x>> ELSE dist_info,
                      IF isdata THEN <<x>> ELSE data_dir)

\* The tests of WheelContents.check as they would be without the test of
\* Root-Is-Purelib
CheckMetadata_any_root(w, metadata, dist_info) ==
  IF OpenError(dist_info, "WHEEL") # NoError
  THEN OpenError(dist_info, "WHEEL")
  ELSE LET wm == _read_metadata(w.WHEEL) IN
    IF wm.err # NoError THEN wm.err
    ELSE IF "Wheel-Version" \notin DOMAIN wm.res
    THEN Raise("KeyError", "Wheel-Version")
    ELSE IF wm.res["Wheel-Version"][1] # "1.0"
    THEN Raise("BadWheelError", "wheel2conda only knows about wheel format 1.0")
    ELSE IF "Name" \notin DOMAIN metadata
    THEN Raise("BadWheelError", "Missing required metadata field: Name")
    ELSE IF "Version" \notin DOMAIN metadata
    THEN Raise("BadWheelError", "Missing required metadata field: Version")
    ELSE NoError

\* The WHEEL and METADATA tests of WheelContents.check, once dist_info is
\* found.
CheckMetadata(w, metadata, dist_info) ==
  IF OpenError(dist_info, "WHEEL") # NoError
  THEN OpenError(dist_info, "WHEEL")
  ELSE LET wm == _read_metadata(w.WHEEL) IN
    IF wm.err # NoError THEN wm.err
    ELSE IF "Wheel-Version" \notin DOMAIN wm.res
    THEN Raise("KeyError", "Wheel-Version")
    ELSE IF wm.res["Wheel-Version"][1] # "1.0"
    THEN Raise("BadWheelError", "wheel2conda only knows about wheel format 1.0")
    ELSE IF "Root-Is-Purelib" \notin DOMAIN wm.res
    THEN Raise("KeyError", "Root-Is-Purelib")
    ELSE IF lower(wm.res["Root-Is-Purelib"][1]) # "true"
    THEN Raise("BadWheelError",
               "Can't currently autoconvert packages with platlib")
    ELSE IF "Name" \notin DOMAIN metadata
    THEN Raise("BadWheelError", "Missing required metadata field: Name")
    ELSE IF "Version" \notin DOMAIN metadata
    THEN Raise("BadWheelError", "Missing required metadata field: Version")
    ELSE NoError

\* WheelContents.check: the exception it raises, NoError when it returns.
check(w, metadata) ==
  LET found == CheckEntries(w.root, <<>>, <<>>) IN
  IF found.err # NoError THEN found.err
  ELSE IF found.dist_info = <<>>
  THEN Raise("BadWheelError", "Didn't find .dist-info directory")
  ELSE CheckMetadata(w, metadata, found.dist_info[1])

\* [p for p in versions if p.startswith('2.')] when keep2, and
\* [p for p in versions if not p.startswith('2.')] otherwise
RECURSIVE FilterVersions(_, _)
FilterVersions(versions, keep2) ==
  IF versions = <<>> THEN <<>>
  ELSE (IF StartsWith(Head(versions), "2.") = keep2
        THEN <<Head(versions)>> ELSE <<>>)
       \o FilterVersions(Tail(versions), keep2)

\* {t.split('-')[0] for t in wheel_metadata['Tag']}
PyTags(tags) == {Split(tags[i], "-")[1] : i \in 1..Len(tags)}

\* filter_compatible_pythons as it would be if the tags were looked at
\* before Requires-Python
filter_compatible_pythons_tags_first(w, metadata, versions) ==
  LET rp == IF "Requires-Python" \in DOMAIN metadata
            THEN <<metadata["Requires-Python"][1]>> ELSE <<>>
      wheel_metadata == _read_metadata(w.WHEEL).res
      py_tags == PyTags(wheel_metadata["Tag"])
      return(res) == [err |-> NoError, res |-> res]
  IN
  IF "Tag" \in DOMAIN wheel_metadata /\ py_tags = {"py3"}
  THEN return(FilterVersions(versions, FALSE))
  ELSE IF "Tag" \in DOMAIN wheel_metadata /\ py_tags = {"py2"}
  THEN return(FilterVersions(versions, TRUE))
  ELSE IF rp # <<>> /\ \E pre \in {"3", ">3", ">=3", "~=3"} : StartsWith(rp[1], pre)
  THEN return(FilterVersions(versions, FALSE))
  ELSE IF rp # <<>> /\ rp[1] \in {"<3", "<3.0"}
  THEN return(FilterVersions(versions, TRUE))
  ELSE IF "Tag" \notin DOMAIN wheel_metadata
  THEN [err |-> Raise("KeyError", "Tag"), res |-> <<>>]
  ELSE return(versions)

\* WheelContents.filter_compatible_pythons(versions), for a checked wheel
\* (find_dist_info succeeds and WHEEL is read without error): the list it
\* returns, or the KeyError of a WHEEL file with no Tag.
filter_compatible_pythons(w, metadata, versions) ==
  LET rp == IF "Requires-Python" \in DOMAIN metadata
            THEN <<metadata["Requires-Python"][1]>> ELSE <<>>
      wheel_metadata == _read_metadata(w.WHEEL).res
      py_tags == PyTags(wheel_metadata["Tag"])
      return(res) == [err |-> NoError, res |-> res]
  IN
  IF rp # <<>> /\ \E pre \in {"3", ">3", ">=3", "~=3"} : StartsWith(rp[1], pre)
  THEN return(FilterVersions(versions, FALSE))
  ELSE IF rp # <<>> /\ rp[1] \in {"<3", "<3.0"}
  THEN return(FilterVersions(versions, TRUE))
  ELSE IF "Tag" \notin DOMAIN wheel_metadata
  THEN [err |-> Raise("KeyError", "Tag"), res |-> <<>>]
  ELSE IF py_tags = {"py3"} THEN return(FilterVersions(versions, FALSE))
  ELSE IF py_tags = {"py2"} THEN return(FilterVersions(versions, TRUE))
  ELSE return(versions)

(***************************************************************************)
(* src/wheel2conda/requirements.py                                         *)
(*                                                                         *)
(* An environment marker is handled as the tree ast.parse makes of it:     *)
(* Name, Attribute (of a Name), Str, Compare (one operator) and BoolOp     *)
(* nodes.                                                                  *)
(***************************************************************************)

Name(id) == [node |-> "Name", id |-> id]

Attribute(value, attr) == [node |-> "Attribute", value |-> value, attr |-> attr]

Str(s) == [node |-> "Str", s |-> s]

Compare(left, op, right) ==
  [node |-> "Compare", left |-> left, op |-> op, right |-> right]

BoolOp(op, values) == [node |-> "BoolOp", op |-> op, values |-> values]

\* sys_platforms[platform]
sys_platforms(platform) ==
  CASE platform = "linux" -> "linux"
    [] platform = "osx" -> "darwin"
    [] platform = "win" -> "win32"

\* os_names[platform]
os_names(platform) ==
  CASE platform = "linux" -> "posix"
    [] platform = "osx" -> "posix"
    [] platform = "win" -> "nt"

\* platform_machines[bitness]
platform_machines(bitness) ==
  CASE bitness = "32" -> "i386"
    [] bitness = "64" -> "x86_64"

\* visit_Name as it would be if a name it does not know were left to eval
\* as the text of the name
visit_Name_lenient(node, env) ==
  IF node.id = "python_version"
  THEN [err |-> NoError, node |-> Str(env.python_version)]
  ELSE IF node.id = "python_full_version"
  THEN [err |-> NoError, node |-> Str(env.python_version \o ".0")]
  ELSE [err |-> NoError, node |-> Str(node.id)]

\* EnvMarkerNameFiller.visit_Name
visit_Name(node, env) ==
  IF node.id = "python_version"
  THEN [err |-> NoError, node |-> Str(env.python_version)]
  ELSE IF node.id = "python_full_version"
  THEN [err |-> NoError, node |-> Str(env.python_version \o ".0")]
  ELSE [err |-> Raise("ValueError", "Unexpected name: " \o node.id),
        node |-> node]

\* assert node.value.id == base; an Attribute of something that is no Name
\* has no id.
AssertBase(node, base) ==
  IF node.value.node # "Name" THEN Raise("AttributeError", "id")
  ELSE IF node.value.id # base THEN Raise("AssertionError", "")
  ELSE NoError

\* EnvMarkerNameFiller.visit_Attribute
visit_Attribute(node, env) ==
  LET known == [platform |-> <<"sys", sys_platforms(env.platform)>>,
                name |-> <<"os", os_names(env.platform)>>,
                version |-> <<"platform", "">>,
                machine |-> <<"platform", platform_machines(env.bitness)>>,
                python_implementation |-> <<"platform", "CPython">>]
  IN
  IF node.attr \notin DOMAIN known
  THEN [err |-> Raise("ValueError", "Unknown attribute: " \o node.attr),
        node |-> node]
  ELSE IF AssertBase(node, known[node.attr][1]) # NoError
  THEN [err |-> AssertBase(node, known[node.attr][1]), node |-> node]
  ELSE [err |-> NoError, node |-> Str(known[node.attr][2])]

\* EnvMarkerNameFiller.visit(node): NodeTransformer visits the children of a
\* node it has no visit_ method for, in field order, and the first exception
\* ends the visit.
RECURSIVE visit(_, _)
RECURSIVE VisitList(_, _)
VisitList(nodes, env) ==
  IF nodes = <<>> THEN [err |-> NoError, nodes |-> <<>>]
  ELSE LET h == visit(Head(nodes), env) IN
    IF h.err # NoError THEN [err |-> h.err, nodes |-> <<>>]
    ELSE LET t == VisitList(Tail(nodes), env) IN
      [err |-> t.err, nodes |-> <<h.node>> \o t.nodes]

visit(node, env) ==
  CASE node.node = "Name" -> visit_Name(node, env)
    [] node.node = "Attribute" -> visit_Attribute(node, env)
    [] node.node = "Str" -> [err |-> NoError, node |-> node]
    [] node.node = "Compare" ->
         LET r == VisitList(<<node.left, node.right>>, env) IN
         IF r.err # NoError THEN [err |-> r.err, node |-> node]
         ELSE [err |-> NoError,
               node |-> Compare(r.nodes[1], node.op, r.nodes[2])]
    [] node.node = "BoolOp" ->
         LET r == VisitList(node.values, env) IN
         IF r.err # NoError THEN [err |-> r.err, node |-> node]
         ELSE [err |-> NoError, node |-> BoolOp(node.op, r.nodes)]

\* Python values: a str or a bool.
PyStr(s) == [type |-> "str", s |-> s, b |-> FALSE]

PyBool(b) == [type |-> "bool", s |-> "", b |-> b]

\* bool(v)
Truthy(v) == IF v.type = "bool" THEN v.b ELSE v.s # ""

\* left op right on two str
CompareStr(a, op, b) ==
  CASE op = "Eq" -> a = b
    [] op = "NotEq" -> a # b
    [] op = "Lt" -> StrLess(a, b)
    [] op = "LtE" -> StrLess(a, b) \/ a = b
    [] op = "Gt" -> StrLess(b, a)
    [] op = "GtE" -> StrLess(b, a) \/ a = b
    [] op = "In" -> IsSubstring(a, b)
    [] op = "NotIn" -> ~IsSubstring(a, b)

\* eval of the compiled expression, every name already replaced by a Str:
\* the value, or the exception.
RECURSIVE Eval(_)
RECURSIVE EvalBoolOp(_, _)
EvalBoolOp(op, values) ==
  LET h == Eval(Head(values)) IN
  IF h.err # NoError \/ Len(values) = 1 THEN h
  ELSE IF op = "And" /\ ~Truthy(h.val) THEN h
  ELSE IF op = "Or" /\ Truthy(h.val) THEN h
  ELSE EvalBoolOp(op, Tail(values))

Eval(node) ==
  CASE node.node = "Str" -> [err |-> NoError, val |-> PyStr(node.s)]
    [] node.node = "Compare" ->
         LET l == Eval(node.left)
             r == Eval(node.right)
         IN
         IF l.err # NoError THEN l
         ELSE IF r.err # NoError THEN r
         ELSE IF l.val.type = "str" /\ r.val.type = "str"
         THEN [err |-> NoError,
               val |-> PyBool(CompareStr(l.val.s, node.op, r.val.s))]
         ELSE IF node.op \in {"Eq", "NotEq"}
         THEN [err |-> NoError,
               val |-> PyBool((node.op = "Eq") = (l.val = r.val))]
         ELSE [err |-> Raise("TypeError", node.op), val |-> PyBool(FALSE)]
    [] node.node = "BoolOp" -> EvalBoolOp(node.op, node.values)
    [] OTHER -> [err |-> Raise("NameError", ""), val |-> PyBool(FALSE)]

\* eval_env_marker, from the tree ast.parse returns: filler.visit(expr), then
\* eval(compile(expr)).
EvalParsed(expr, env) ==
  LET filled == visit(expr, env) IN
  IF filled.err # NoError THEN [err |-> filled.err, val |-> PyBool(FALSE)]
  ELSE Eval(filled.node)

\* The most comparisons a modelled marker joins with and, or with or.
MaxTerms == 2

\* The names and attributes of the modelled markers: those the evaluator
\* knows, names it does not know, attributes it does not know, known
\* attributes of the wrong module, and an attribute of an attribute.
MarkerOperands ==
  {Name(id) : id \in {"python_version", "python_full_version", "sys_platform",
                      "platform_machine"}}
  \cup {Attribute(Name(base), attr) :
          base \in {"sys", "os", "platform"},
          attr \in {"platform", "name", "version", "machine",
                    "python_implementation", "maxsize"}}
  \cup {Attribute(Attribute(Name("os"), "path"), "name")}

\* The comparisons of the modelled markers: an operand against a literal.
MarkerComparisons ==
  {Compare(left, op, Str(lit)) :
     left \in MarkerOperands,
     op \in {"Eq", "NotEq", "Lt", "GtE"},
     lit \in {"3", "linux", "posix", "x86_64", ""}}

\* The comparisons the modelled markers join with and, or with or.
JoinedComparisons ==
  {Compare(Name("python_version"), "GtE", Str("3")),
   Compare(Attribute(Name("os"), "name"), "Eq", Str("posix")),
   Compare(Attribute(Name("sys"), "platform"), "Eq", Str("win32")),
   Compare(Name("sys_platform"), "Eq", Str("linux"))}

\* The expressions of the modelled markers.
MarkerExprs ==
  MarkerOperands
  \cup MarkerComparisons
  \cup {BoolOp(op, values) :
          op \in {"And", "Or"},
          values \in UNION {[1..n -> JoinedComparisons] : n \in 2..MaxTerms}}

\* The source text of an operator.
OpText(op) ==
  CASE op = "Eq" -> "=="
    [] op = "NotEq" -> "!="
    [] op = "Lt" -> "<"
    [] op = "LtE" -> "<="
    [] op = "Gt" -> ">"
    [] op = "GtE" -> ">="
    [] op = "In" -> "in"
    [] op = "NotIn" -> "not in"
    [] op = "And" -> "and"
    [] op = "Or" -> "or"

\* The source text of an expression, in the usual spacing.
RECURSIVE Unparse(_)
Unparse(node) ==
  CASE node.node = "Name" -> node.id
    [] node.node = "Attribute" -> Unparse(node.value) \o "." \o node.attr
    [] node.node = "Str" -> "'" \o node.s \o "'"
    [] node.node = "Compare" ->
         Unparse(node.left) \o " " \o OpText(node.op) \o " " \o Unparse(node.right)
    [] node.node = "BoolOp" ->
         Join(" " \o OpText(node.op) \o " ",
              [i \in 1..Len(node.values) |-> Unparse(node.values[i])])

\* Each modelled marker text with its tree.
ParsedMarkers == {<<Unparse(e), e>> : e \in MarkerExprs}

\* ast.parse(s, mode='eval') for the modelled marker texts: the tree of s;
\* text that opens with a blank is an unexpected indent, and any other text
\* is taken not to be an expression.
ast_parse(s) ==
  IF s # "" /\ Head(s) \in {" ", "\t"}
  THEN [err |-> Raise("IndentationError", "unexpected indent"), expr |-> Str("")]
  ELSE IF \E p \in ParsedMarkers : p[1] = s
  THEN [err |-> NoError, expr |-> (CHOOSE p \in ParsedMarkers : p[1] = s)[2]]
  ELSE [err |-> Raise("SyntaxError", "invalid syntax"), expr |-> Str("")]

\* eval_env_marker(s, python_version, platform, bitness)
eval_env_marker(s, env) ==
  LET parsed == ast_parse(s) IN
  IF parsed.err # NoError THEN [err |-> parsed.err, val |-> PyBool(FALSE)]
  ELSE EvalParsed(parsed.expr, env)

\* The loop of requires_dist_to_conda_requirements over the requirements
\* still to translate.
RECURSIVE TranslateReqs(_, _, _)
TranslateReqs(reqs, env, res) ==
  IF reqs = <<>> THEN [err |-> NoError, res |-> res]
  ELSE LET r0 == Head(reqs)
           marked == Find(r0, ";") # 0
           parts == Split1(r0, ";")
           r == parts[1]
           applicable == IF marked THEN eval_env_marker(parts[2], env)
                         ELSE [err |-> NoError, val |-> PyBool(TRUE)]
       IN
    IF applicable.err # NoError THEN [err |-> applicable.err, res |-> res]
    ELSE TranslateReqs(Tail(reqs), env,
           IF Truthy(applicable.val)
           THEN Append(res, Remove(Remove(r, "("), ")"))
           ELSE res)

\* requires_dist_to_conda_requirements(reqs, python_version, platform, bitness)
requires_dist_to_conda_requirements(reqs, env) == TranslateReqs(reqs, env, <<>>)

(***************************************************************************)
(* src/wheel2conda/__init__.py: the package builder                        *)
(*                                                                         *)
(* A builder value b holds the PackageBuilder's lists (files,              *)
(* has_prefix_files, py_record_extra) and tf, the members written to the   *)
(* open tar file so far.  A member is its name, its type and its content;  *)
(* the content of a file copied from the wheel is the path it was copied   *)
(* from.                                                                   *)
(***************************************************************************)

PREFIX == "/opt/anaconda1anaconda2anaconda3"

PYTHON_VERSIONS == <<"3.6", "3.5", "3.4", "2.7">>

PLATFORM_PAIRS ==
  <<<<"linux", "64">>, <<"linux", "32">>, <<"osx", "64">>,
    <<"win", "64">>, <<"win", "32">>>>

\* script_template.format(interpreter=..., module=..., func=...)
script_template(interpreter, module, func) ==
  "#!" \o interpreter \o "\n"
  \o "from " \o module \o " import " \o func \o "\n"
  \o "if __name__ == '__main__':\n"
  \o "    " \o func \o "()\n"

\* CaseSensitiveContextParser sets optionxfrom, a name ConfigParser never
\* reads: the optionxform it inherits, str.lower, is what every option name
\* of entry_points.txt goes through.
optionxform(name) == lower(name)

\* _license_classifiers
_license_classifiers ==
  ("License :: OSI Approved :: MIT License" :> "MIT")
  @@ ("License :: OSI Approved :: BSD License" :> "BSD")
  @@ ("License :: OSI Approved :: Apache Software License" :> "Apache")
  @@ ("License :: OSI Approved :: GNU General Public License (GPL)" :> "GPL")
  @@ ("License :: OSI Approved :: GNU General Public License v2 (GPLv2)"
        :> "GPLv2")
  @@ ("License :: OSI Approved :: GNU General Public License v2 or later (GPLv2+)"
        :> "GPLv2+")
  @@ ("License :: OSI Approved :: GNU General Public License v3 (GPLv3)"
        :> "GPLv3")
  @@ ("License :: OSI Approved :: GNU General Public License v3 or later (GPLv3+)"
        :> "GPLv3+")
  @@ ("License :: OSI Approved :: GNU Lesser General Public License v2 (LGPLv2)"
        :> "LGPLv2")
  @@ ("License :: OSI Approved :: GNU Lesser General Public License v2 or later (LGPLv2+)"
        :> "LGPLv2+")
  @@ ("License :: OSI Approved :: GNU Lesser General Public License v3 (LGPLv3)"
        :> "LGPLGv3")
  @@ ("License :: OSI Approved :: GNU Lesser General Public License v3 or later (LGPLv3+)"
        :> "LGPLv3+")
  @@ ("License :: OSI Approved :: GNU Library or Lesser General Public License (LGPL)"
        :> "LGPL")

\* The loop of identify_license over the classifiers still to look at.
RECURSIVE FirstLicenseClassifier(_)
FirstLicenseClassifier(clfs) ==
  IF clfs = <<>> THEN "UNKNOWN"
  ELSE IF Head(clfs) \in DOMAIN _license_classifiers
  THEN _license_classifiers[Head(clfs)]
  ELSE FirstLicenseClassifier(Tail(clfs))

\* identify_license(metadata)
identify_license(metadata) ==
  IF "License" \in DOMAIN metadata
     /\ lower(metadata["License"][1]) # "unknown"
  THEN metadata["License"][1]
  ELSE FirstLicenseClassifier(IF "Classifier" \in DOMAIN metadata
                              THEN metadata["Classifier"] ELSE <<>>)

\* PackageBuilder.__init__: the lists of a new builder; tf is the tar file
\* build opens, with nothing written to it.
PackageBuilder_init ==
  [files |-> <<>>, has_prefix_files |-> <<>>, py_record_extra |-> <<>>,
   tf |-> <<>>]

\* _add_to_tarball(tf, arcname, contents), and tf.add of a regular file
Member(name, content) == [name |-> name, type |-> "file", content |-> content]

DirMember(name) == [name |-> name, type |-> "dir", content |-> ""]

\* sorted(os.listdir(name)): the children of a directory by name
RECURSIVE SortedInsert(_, _)
SortedInsert(sorted, x) ==
  IF sorted = <<>> THEN <<x>>
  ELSE IF StrLess(x.name, Head(sorted).name) THEN <<x>> \o sorted
  ELSE <<Head(sorted)>> \o SortedInsert(Tail(sorted), x)

RECURSIVE SortedByName(_)
SortedByName(nodes) ==
  IF nodes = <<>> THEN <<>>
  ELSE SortedInsert(SortedByName(Tail(nodes)), Head(nodes))

\* exclude_record(ti)
exclude_record(name) == EndsWith(name, "RECORD")

\* tf.add(src, arcname=arcname, filter=...): the members it writes.  A
\* directory is written, then its children in sorted order; a member the
\* filter drops is not written, and neither is anything below it.
RECURSIVE tf_add(_, _, _, _)
RECURSIVE tf_add_children(_, _, _, _)
tf_add_children(nodes, src, arcname, filtered) ==
  IF nodes = <<>> THEN <<>>
  ELSE tf_add(Head(nodes), posixpath_join(src, <<Head(nodes).name>>),
              posixpath_join(arcname, <<Head(nodes).name>>), filtered)
       \o tf_add_children(Tail(nodes), src, arcname, filtered)

tf_add(node, src, arcname, filtered) ==
  IF filtered /\ exclude_record(arcname) THEN <<>>
  ELSE IF ~node.is_dir THEN <<Member(arcname, src)>>
  ELSE <<DirMember(arcname)>>
       \o tf_add_children(SortedByName(node.children), src, arcname, filtered)

\* PackageBuilder.record_file
record_file(b, arcname, has_prefix) ==
  [b EXCEPT !.files = Append(@, arcname),
            !.has_prefix_files = IF has_prefix THEN Append(@, arcname) ELSE @]

\* The paths record_file_or_dir records for a directory: os.walk yields the
\* directory, whose files are recorded in listing order, and then walks each
\* of its subdirectories, in listing order.
RECURSIVE WalkFiles(_, _, _)
RECURSIVE WalkSubdirs(_, _, _)
WalkSubdirs(nodes, arcname, rel_dirpath) ==
  IF nodes = <<>> THEN <<>>
  ELSE (IF Head(nodes).is_dir
        THEN WalkFiles(Head(nodes), arcname,
                       IF rel_dirpath = "." THEN Head(nodes).name
                       ELSE posixpath_join(rel_dirpath, <<Head(nodes).name>>))
        ELSE <<>>)
       \o WalkSubdirs(Tail(nodes), arcname, rel_dirpath)

WalkFiles(node, arcname, rel_dirpath) ==
  LET filenames == SelectSeq(node.children, LAMBDA c : ~c.is_dir) IN
  [i \in 1..Len(filenames) |->
     posixpath_normpath(
       posixpath_join(arcname, <<rel_dirpath, filenames[i].name>>))]
  \o WalkSubdirs(node.children, arcname, rel_dirpath)

\* files.append for each path of a sequence
RECURSIVE RecordAll(_, _)
RecordAll(b, paths) ==
  IF paths = <<>> THEN b
  ELSE RecordAll(record_file(b, Head(paths), FALSE), Tail(paths))

\* PackageBuilder.record_file_or_dir
record_file_or_dir(b, arcname, src) ==
  IF src.is_dir THEN RecordAll(b, WalkFiles(src, arcname, "."))
  ELSE record_file(b, arcname, FALSE)

\* PackageBuilder.site_packages_path
site_packages_path(env) ==
  IF env.platform = "win" THEN "Lib/site-packages/"
  ELSE "lib/python" \o env.python_version \o "/site-packages/"

\* PackageBuilder.scripts_path
scripts_path(env) == IF env.platform = "win" THEN "Scripts/" ELSE "bin/"

\* tf.add(str(f), arcname=...) followed by record_file_or_dir
AddAndRecord(b, node, src, arcname, filtered) ==
  record_file_or_dir(
    [b EXCEPT !.tf = @ \o tf_add(node, src, arcname, filtered)],
    arcname, node)

\* The inner loop of _add_data_dir over the children of <x>.data/data.
RECURSIVE AddDataFiles(_, _, _)
AddDataFiles(b, fs, src) ==
  IF fs = <<>> THEN b
  ELSE AddDataFiles(
         AddAndRecord(b, Head(fs), posixpath_join(src, <<Head(fs).name>>),
                      Head(fs).name, FALSE),
         Tail(fs), src)

\* PackageBuilder._add_data_dir: the loop over the children ds of the .data
\* directory at src.
RECURSIVE _add_data_dir(_, _, _)
_add_data_dir(b, ds, src) ==
  IF ds = <<>> THEN [err |-> NoError, b |-> b]
  ELSE LET d == Head(ds) IN
    IF d.name = "data"
    THEN _add_data_dir(
           AddDataFiles(b, d.children, posixpath_join(src, <<d.name>>)),
           Tail(ds), src)
    ELSE [err |-> Raise("NotImplementedError", d.name \o " under data dir"),
          b |-> b]

\* PackageBuilder.add_module: the loop over the top-level entries still to
\* add.
RECURSIVE add_module(_, _, _)
add_module(b, root, env) ==
  IF root = <<>> THEN [err |-> NoError, b |-> b]
  ELSE LET src == Head(root)
           dst == site_packages_path(env) \o src.name
       IN
    IF EndsWith(src.name, ".data")
    THEN LET r == _add_data_dir(b, src.children, src.name) IN
         IF r.err # NoError THEN r ELSE add_module(r.b, Tail(root), env)
    ELSE add_module(
           AddAndRecord(b, src, src.name, dst, EndsWith(src.name, ".dist-info")),
           Tail(root), env)

\* A stand-in for base64.urlsafe_b64encode(sha256(contents).digest()) with
\* its padding stripped: a checksum of the characters, each weighted by its
\* place (at is the number of characters before contents), so that the
\* digest is a function of the contents and of nothing else.
RECURSIVE Checksum(_, _)
Checksum(contents, at) ==
  IF Len(contents) = 0 THEN 0
  ELSE IF Len(contents) = 1 THEN (Ord(contents) * (at + 1)) % 65521
  ELSE (Checksum(SubSeq(contents, 1, Len(contents) \div 2), at)
        + Checksum(SubSeq(contents, Len(contents) \div 2 + 1, Len(contents)),
                   at + Len(contents) \div 2)) % 65521

Digest(contents) == IntToStr(Checksum(contents, 0))

\* PackageBuilder._py_record_file
_py_record_file(b, relpath, contents) ==
  [b EXCEPT !.py_record_extra =
     Append(@, <<relpath, "sha256=" \o Digest(contents), Len(contents)>>)]

\* PackageBuilder._write_script_unix
_write_script_unix(b, env, name, contents) ==
  LET path == scripts_path(env) \o name IN
  _py_record_file(
    record_file([b EXCEPT !.tf = Append(@, Member(path, contents))],
                path, TRUE),
    path, contents)

\* The bytes of the launcher win_cli_launchers.find_exe(arch) names.
LauncherExe(arch) == "MZ launcher " \o arch

\* _write_script_windows as it would be if the launcher were copied and
\* listed but given no row in py_record_extra
_write_script_windows_no_exe_row(b, env, name, contents) ==
  LET b1 == _write_script_unix(b, env, name \o "-script.py", contents)
      arch == IF env.bitness = "64" THEN "x64" ELSE "x86"
      dst == scripts_path(env) \o name \o ".exe"
  IN
  record_file([b1 EXCEPT !.tf = Append(@, Member(dst, LauncherExe(arch)))],
              dst, FALSE)

\* PackageBuilder._write_script_windows
_write_script_windows(b, env, name, contents) ==
  LET b1 == _write_script_unix(b, env, name \o "-script.py", contents)
      arch == IF env.bitness = "64" THEN "x64" ELSE "x86"
      dst == scripts_path(env) \o name \o ".exe"
  IN
  _py_record_file(
    record_file([b1 EXCEPT !.tf = Append(@, Member(dst, LauncherExe(arch)))],
                dst, FALSE),
    dst, LauncherExe(arch))

\* configparser's reading of one option line, "name = value" or
\* "name: value": the name is what precedes the first = or :, stripped and
\* put through optionxform; the value is the rest, stripped.
ParseOption(line) ==
  LET eq == Find(line, "=")
      co == Find(line, ":")
      at == IF eq = 0 THEN co ELSE IF co = 0 THEN eq
            ELSE IF eq < co THEN eq ELSE co
  IN <<optionxform(strip(SubSeq(line, 1, at - 1))),
       strip(SubSeq(line, at + 1, Len(line)))>>

\* cp['console_scripts'].items()
ConsoleScripts(lines) == [i \in 1..Len(lines) |-> ParseOption(lines[i])]

\* The loop of create_scripts over the entry points still to write.
RECURSIVE WriteScripts(_, _, _)
WriteScripts(b, items, env) ==
  IF items = <<>> THEN [err |-> NoError, b |-> b]
  ELSE LET name == Head(items)[1]
           ep == Head(items)[2]
       IN
    IF Count(ep, ":") # 1
    THEN [err |-> Raise("ValueError", "Bad entry point: '" \o ep \o "'"), b |-> b]
    ELSE LET mod == Split(ep, ":")[1]
             func == Split(ep, ":")[2]
             s == script_template(PREFIX \o "/bin/python", mod, func)
         IN WriteScripts(IF env.platform = "win"
                         THEN _write_script_windows(b, env, name, s)
                         ELSE _write_script_unix(b, env, name, s),
                         Tail(items), env)

\* PackageBuilder.create_scripts
create_scripts(b, w, env) ==
  LET dist_info == find_dist_info(w.root).x
      items == ConsoleScripts(w.entry_points)
  IN
  IF ~HasFile(dist_info, "entry_points.txt") THEN [err |-> NoError, b |-> b]
  ELSE IF \E i, j \in 1..Len(items) : i < j /\ items[i][1] = items[j][1]
  THEN [err |-> Raise("DuplicateOptionError", "option already exists"),
        b |-> b]
  ELSE WriteScripts(b, items, env)

\* csv.reader over the lines of RECORD, and csv.writer's writerow, for
\* fields that need no quoting
csv_reader(lines) == [i \in 1..Len(lines) |-> Split(lines[i], ",")]

csv_writerow(row) == Join(",", row) \o "\r\n"

RECURSIVE csv_writerows(_)
csv_writerows(rows) ==
  IF rows = <<>> THEN ""
  ELSE csv_writerow(Head(rows)) \o csv_writerows(Tail(rows))

\* prefix_from_site_pkgs as it would be if every target were laid out like
\* Windows
prefix_from_site_pkgs_win(env) == "../.."

\* prefix_from_site_pkgs in write_pep376_record
prefix_from_site_pkgs(env) ==
  IF env.platform = "win" THEN "../.." ELSE "../../.."

\* The row write_pep376_record writes for a row of the wheel's RECORD.
RewriteRow(row, env) ==
  LET path_parts == Split(row[1], "/") IN
  IF Len(path_parts) > 2
     /\ EndsWith(path_parts[1], ".data")
     /\ path_parts[2] = "data"
  THEN [row EXCEPT ![1] = posixpath_join(prefix_from_site_pkgs(env),
                                         SubSeq(path_parts, 3, Len(path_parts)))]
  ELSE row

\* The row write_pep376_record writes for a row of py_record_extra.
ExtraRow(row, env) ==
  <<posixpath_join(prefix_from_site_pkgs(env), <<row[1]>>), row[2],
    IntToStr(row[3])>>

\* The rows of the RECORD write_pep376_record writes.
InstalledRecord(b, w, env) ==
  [i \in 1..Len(w.RECORD) |-> RewriteRow(csv_reader(w.RECORD)[i], env)]
  \o [i \in 1..Len(b.py_record_extra) |-> ExtraRow(b.py_record_extra[i], env)]

\* PackageBuilder.write_pep376_record
write_pep376_record(b, w, env) ==
  LET dist_info == find_dist_info(w.root).x
      record_path == site_packages_path(env) \o dist_info.name \o "/RECORD"
  IN
  IF OpenError(dist_info, "RECORD") # NoError
  THEN [err |-> OpenError(dist_info, "RECORD"), b |-> b]
  ELSE IF \E i \in 1..Len(w.RECORD) : w.RECORD[i] = ""
  THEN [err |-> Raise("IndexError", "list index out of range"), b |-> b]
  ELSE [err |-> NoError,
        b |-> [b EXCEPT !.tf =
                 Append(@, Member(record_path,
                                  csv_writerows(InstalledRecord(b, w, env))))]]

\* json.dumps of a list of str, inside an object indented by 2
RECURSIVE JsonItems(_)
JsonItems(items) ==
  IF items = <<>> THEN ""
  ELSE "    \"" \o Head(items) \o "\""
       \o (IF Len(items) > 1 THEN ",\n" ELSE "\n")
       \o JsonItems(Tail(items))

\* PackageBuilder.write_index
write_index(b, w, metadata, env) ==
  LET py_version_nodot == Remove(env.python_version, ".")
      reqs == IF "Requires-Dist" \in DOMAIN metadata
              THEN metadata["Requires-Dist"] ELSE <<>>
      conda_reqs == requires_dist_to_conda_requirements(reqs, env)
      build_no == 0
      depends == <<"python " \o env.python_version \o "*">> \o conda_reqs.res
      contents ==
        "{\n"
        \o "  \"arch\": \"" \o (IF env.bitness = "64" THEN "x86_64" ELSE "x86")
        \o "\",\n"
        \o "  \"build\": \"py" \o py_version_nodot \o "_" \o IntToStr(build_no)
        \o "\",\n"
        \o "  \"build_number\": " \o IntToStr(build_no) \o ",\n"
        \o "  \"depends\": [\n" \o JsonItems(depends) \o "  ],\n"
        \o "  \"license\": \"" \o identify_license(metadata) \o "\",\n"
        \o "  \"name\": \"" \o metadata["Name"][1] \o "\",\n"
        \o "  \"platform\": \"" \o env.platform \o "\",\n"
        \o "  \"subdir\": \"" \o env.platform \o "-" \o env.bitness \o "\",\n"
        \o "  \"version\": \"" \o metadata["Version"][1] \o "\"\n"
        \o "}"
  IN
  IF conda_reqs.err # NoError THEN [err |-> conda_reqs.err, b |-> b]
  ELSE [err |-> NoError,
        b |-> [b EXCEPT !.tf = Append(@, Member("info/index.json", contents))]]

\* PackageBuilder.write_has_prefix_list
write_has_prefix_list(b) ==
  LET lines == [i \in 1..Len(b.has_prefix_files) |->
                  PREFIX \o " text " \o b.has_prefix_files[i]]
  IN [b EXCEPT !.tf = Append(@, Member("info/has_prefix", Join("\n", lines)))]

\* PackageBuilder.write_files_list
write_files_list(b) ==
  [b EXCEPT !.tf = Append(@, Member("info/files", Join("\n", b.files)))]

(***************************************************************************)
(* The wheels the model converts                                           *)
(***************************************************************************)

\* The longest console_scripts section of a modelled entry_points.txt.
MaxEntryPoints == 2

\* Every listing order of a set of directory entries.
Orders(entries) ==
  {o \in [1..Cardinality(entries) -> entries] :
     \A i, j \in 1..Cardinality(entries) : o[i] = o[j] => i = j}

\* Every sequence over S of length 0..n.
SeqsUpTo(S, n) == UNION {[1..k -> S] : k \in 0..n}

\* A package directory.
ModuleDir == Dir("p", <<File("i.py")>>)

\* A .dist-info directory; entry_points.txt is there when the wheel
\* declares entry points.
DistInfoDir(name, has_eps) ==
  Dir(name, <<File("METADATA"), File("WHEEL"), File("RECORD")>>
            \o (IF has_eps THEN <<File("entry_points.txt")>> ELSE <<>>))

\* The .data directory with its supported subdirectory, data.
DataDir == Dir("p.data", <<Dir("data", <<Dir("share", <<File("x")>>)>>)>>)

\* .data directories that hold a subdirectory build does not support, alone
\* or listed after data.
BadDataDirs ==
  {Dir("p.data", <<Dir("scripts", <<File("s")>>)>>),
   Dir("p.data", <<Dir("data", <<File("top")>>), Dir("scripts", <<File("s")>>)>>)}

\* The top-level entries of the modelled wheels, in every listing order:
\* well-formed ones, and ones with no, two, or a non-directory .dist-info.
Roots(has_eps) ==
  LET di == DistInfoDir("p-1.dist-info", has_eps) IN
  Orders({ModuleDir, di})
  \cup Orders({ModuleDir, di, DataDir})
  \cup UNION {Orders({ModuleDir, di, d}) : d \in BadDataDirs}
  \cup Orders({ModuleDir})
  \cup Orders({ModuleDir, di, DistInfoDir("q-1.dist-info", FALSE)})
  \cup Orders({ModuleDir, File("f.dist-info")})
  \cup Orders({di, File("f.dist-info")})

METADATA_lines == <<"Name: p", "Version: 1", "License: MIT", "", "A package.">>

WHEEL_lines(version, purelib, tags) ==
  <<"Wheel-Version: " \o version, "Root-Is-Purelib: " \o purelib>>
  \o [i \in 1..Len(tags) |-> "Tag: " \o tags[i]]

RECORD_lines ==
  <<"p/i.py,sha256=a1,10", "p.data/data/share/x,sha256=b2,20",
    "p-1.dist-info/RECORD,,">>

\* Lines of a console_scripts section: well-formed entry points, one whose
\* name has capitals, and entry points with no colon and with two.
EntryPointLines ==
  {"mytool = mypkg.cli:main", "MyTool = mypkg.cli:main", "ok = m:f",
   "bad = mypkg", "worse = a:b:c"}

Wheel(root, metadata, wheel, record, entry_points) ==
  [root |-> root, METADATA |-> metadata, WHEEL |-> wheel, RECORD |-> record,
   entry_points |-> entry_points]

\* Wheels that differ in their top-level layout and in what WHEEL declares.
LayoutWheels ==
  {Wheel(root, METADATA_lines, WHEEL_lines(v[1], v[2], <<"py3-none-any">>),
         RECORD_lines, <<>>) :
     root \in Roots(FALSE),
     v \in {<<"1.0", "true">>, <<"1.0", "True">>, <<"1.0", "false">>,
            <<"2.0", "true">>, <<"2.0", "false">>}}

\* Wheels that differ in their entry points.
EntryPointWheels ==
  {Wheel(<<ModuleDir, DistInfoDir("p-1.dist-info", TRUE)>>, METADATA_lines,
         WHEEL_lines("1.0", "true", <<"py2-none-any", "py3-none-any">>),
         RECORD_lines, eps) :
     eps \in SeqsUpTo(EntryPointLines, MaxEntryPoints) \ {<<>>}}

\* Wheels that differ in their METADATA: a required field missing, a
\* Requires-Python, requirements with markers.
MetadataWheels ==
  {Wheel(<<DistInfoDir("p-1.dist-info", FALSE), ModuleDir>>, m,
         WHEEL_lines("1.0", "true", <<"py2.py3-none-any">>), RECORD_lines, <<>>) :
     m \in {<<"Name: p">>, <<"Version: 1">>,
            <<"Name: p", "Version: 1", "Requires-Python: <3">>,
            <<"Name: p", "Version: 1", "Requires-Dist: foo (>=1.0)",
              "Requires-Dist: bar;python_version < '3'">>,
            <<"Name: p", "Version: 1",
              "Requires-Dist: bar;sys_platform == 'linux'">>}}

\* A package directory that lists a module before a subpackage whose name
\* sorts before the module's.
NestedModuleDir == Dir("p", <<File("b.py"), Dir("a", <<File("x.py")>>)>>)

\* A .dist-info directory that holds, next to RECORD, a file whose name
\* ends in RECORD.
DistInfoDirOldRecord ==
  Dir("p-1.dist-info",
      <<File("METADATA"), File("WHEEL"), File("RECORD"), File("OLD_RECORD")>>)

\* Wheels that differ in the files build has to list: a nested package, a
\* second file named like RECORD, a data file.
ManifestWheels ==
  {Wheel(root, METADATA_lines, WHEEL_lines("1.0", "true", <<"py3-none-any">>),
         RECORD_lines, <<>>) :
     root \in {<<NestedModuleDir, DistInfoDir("p-1.dist-info", FALSE)>>,
               <<ModuleDir, DistInfoDirOldRecord>>,
               <<ModuleDir, DataDir, DistInfoDir("p-1.dist-info", FALSE)>>}}

Wheels ==
  LayoutWheels \cup EntryPointWheels \cup MetadataWheels \cup ManifestWheels

(***************************************************************************)
(* The driver: main() as a state machine                                   *)
(***************************************************************************)

VARIABLES
  wheel,     \* the wheel file given on the command line
  pc,        \* where main() is
  err,       \* the exception that ended the run, NoError while there is none
  td,        \* the temporary directory of wc: "none", "live", "released"
  metadata,  \* wc.metadata
  dirs,      \* the output directories that exist
  outfiles,  \* the output files that exist: "open", "complete", "partial"
  pi,        \* the index in PLATFORM_PAIRS of the pair being converted for
  compat,    \* wc.filter_compatible_pythons(PYTHON_VERSIONS), for that pair
  vi,        \* the index in compat of the Python version being converted for
  b,         \* pb, the PackageBuilder, and the tar file it writes
  built,     \* the archives of the builds finished by a repeated build
  args,      \* the arguments of a function called on its own
  ret        \* what that function returned; <<>> before the call

vars ==
  <<wheel, pc, err, td, metadata, dirs, outfiles, pi, compat, vi, b, built,
    args, ret>>

\* The target of the build under way.
Env ==
  [python_version |-> compat[vi], platform |-> PLATFORM_PAIRS[pi][1],
   bitness |-> PLATFORM_PAIRS[pi][2]]

\* d in main(): the output directory of the pair under way
OutDir == PLATFORM_PAIRS[pi][1] \o "-" \o PLATFORM_PAIRS[pi][2]

\* d / filename in main(): the output file of the build under way
OutFile ==
  OutDir \o "/" \o metadata["Name"][1] \o "-" \o metadata["Version"][1]
  \o "-py" \o Remove(compat[vi], ".") \o "_0.tar.bz2"

\* b while main() has made no builder yet.
NoBuilder ==
  [files |-> <<>>, has_prefix_files |-> <<>>, py_record_extra |-> <<>>,
   tf |-> <<>>]

\* What main() starts from, for each wheel.
Init ==
  /\ wheel \in Wheels
  /\ pc = "start"
  /\ err = NoError
  /\ td = "none"
  /\ metadata = <<>>
  /\ dirs = {}
  /\ outfiles = <<>>
  /\ pi = 1
  /\ compat = <<>>
  /\ vi = 1
  /\ b = NoBuilder
  /\ built = <<>>
  /\ args = <<>>
  /\ ret = <<>>

\* wc = WheelContents(args.wheel_file)
Construct ==
  /\ pc = "start"
  /\ td' = "live"
  /\ LET r == WheelContents_init(wheel) IN
       IF r.err # NoError
       THEN /\ pc' = "error" /\ err' = r.err /\ UNCHANGED metadata
       ELSE /\ pc' = "check" /\ metadata' = r.res /\ UNCHANGED err
  /\ UNCHANGED <<wheel, dirs, outfiles, pi, compat, vi, b, built, args, ret>>

\* wc.check()
Check ==
  /\ pc = "check"
  /\ LET e == check(wheel, metadata) IN
       IF e # NoError
       THEN /\ pc' = "error" /\ err' = e
       ELSE /\ pc' = "mkdir" /\ UNCHANGED err
  /\ UNCHANGED <<wheel, td, metadata, dirs, outfiles, pi, compat, vi, b,
                 built, args, ret>>

\* The head of the loop over PLATFORM_PAIRS: d.mkdir(), an existing
\* directory left as it is, and the Python versions to convert for.
Mkdir ==
  /\ pc = "mkdir"
  /\ pi <= Len(PLATFORM_PAIRS)
  /\ dirs' = dirs \cup {OutDir}
  /\ LET r == filter_compatible_pythons(wheel, metadata, PYTHON_VERSIONS) IN
       IF r.err # NoError
       THEN /\ pc' = "error" /\ err' = r.err /\ UNCHANGED compat
       ELSE /\ pc' = "open" /\ compat' = r.res /\ UNCHANGED err
  /\ vi' = 1
  /\ UNCHANGED <<wheel, td, metadata, outfiles, pi, b, built, args, ret>>

\* The head of the loop over the Python versions: a new PackageBuilder, and
\* the output file opened for writing.
OpenOutput ==
  /\ pc = "open"
  /\ vi <= Len(compat)
  /\ b' = PackageBuilder_init
  /\ outfiles' = (OutFile :> "open") @@ outfiles
  /\ pc' = "add_module"
  /\ UNCHANGED <<wheel, err, td, metadata, dirs, pi, compat, vi, built, args,
                 ret>>

\* The loop over the Python versions is over: on to the next pair.
NextPlatform ==
  /\ pc = "open"
  /\ vi > Len(compat)
  /\ pi' = pi + 1
  /\ pc' = "mkdir"
  /\ UNCHANGED <<wheel, err, td, metadata, dirs, outfiles, compat, vi, b,
                 built, args, ret>>

\* A step of build: r is what the step returns.  When it raises, the tar
\* file is closed without its end-of-archive blocks, the output file is
\* closed with what was written to it, and the exception leaves main().
BuildStep(at, r, next) ==
  /\ pc = at
  /\ b' = r.b
  /\ IF r.err # NoError
     THEN /\ pc' = "error"
          /\ err' = r.err
          /\ outfiles' = [outfiles EXCEPT ![OutFile] = "partial"]
     ELSE /\ pc' = next
          /\ UNCHANGED <<err, outfiles>>
  /\ UNCHANGED <<wheel, td, metadata, dirs, pi, compat, vi, built, args, ret>>

AddModule ==
  BuildStep("add_module", add_module(b, wheel.root, Env), "create_scripts")

CreateScripts ==
  BuildStep("create_scripts", create_scripts(b, wheel, Env),
            "write_pep376_record")

WritePep376Record ==
  BuildStep("write_pep376_record", write_pep376_record(b, wheel, Env),
            "write_index")

WriteIndex ==
  BuildStep("write_index", write_index(b, wheel, metadata, Env),
            "write_has_prefix_list")

WriteHasPrefixList ==
  BuildStep("write_has_prefix_list",
            [err |-> NoError, b |-> write_has_prefix_list(b)],
            "write_files_list")

WriteFilesList ==
  BuildStep("write_files_list", [err |-> NoError, b |-> write_files_list(b)],
            "close")

\* build returns: the tar file is closed, then the output file, and the
\* loop goes on to the next Python version.
CloseOutput ==
  /\ pc = "close"
  /\ outfiles' = [outfiles EXCEPT ![OutFile] = "complete"]
  /\ vi' = vi + 1
  /\ pc' = "open"
  /\ UNCHANGED <<wheel, err, td, metadata, dirs, pi, compat, b, built, args,
                 ret>>

\* wc.td.cleanup(), after the loop over PLATFORM_PAIRS
Cleanup ==
  /\ pc = "mkdir"
  /\ pi > Len(PLATFORM_PAIRS)
  /\ td' = "released"
  /\ pc' = "done"
  /\ UNCHANGED <<wheel, err, metadata, dirs, outfiles, pi, compat, vi, b,
                 built, args, ret>>

Build ==
  \/ AddModule
  \/ CreateScripts
  \/ WritePep376Record
  \/ WriteIndex
  \/ WriteHasPrefixList
  \/ WriteFilesList

Next ==
  \/ Construct
  \/ Check
  \/ Mkdir
  \/ OpenOutput
  \/ NextPlatform
  \/ Build
  \/ CloseOutput
  \/ Cleanup

Spec == Init /\ [][Next]_vars

(***************************************************************************)
(* Claims about the conversion                                             *)
(***************************************************************************)

\* The first position of x in seq, 0 when it is not there.
IndexOf(seq, x) ==
  IF \E i \in 1..Len(seq) : seq[i] = x
  THEN CHOOSE i \in 1..Len(seq) : seq[i] = x /\ \A j \in 1..(i - 1) : seq[j] # x
  ELSE 0

\* The name an entry point line `name = module:function` declares.
DeclaredName(line) == strip(SubSeq(line, 1, Find(line, "=") - 1))

\* create_scripts has returned, for a wheel that declares entry points.
ScriptsCreated == pc = "write_pep376_record" /\ wheel.entry_points # <<>>

\* C1: once create_scripts has returned, for every entry point
\* `name = module:function` of the wheel the files list of a Windows build
\* holds Scripts/<name>.exe and, after it, Scripts/<name>-script.py, and the
\* files list of any other build holds bin/<name> exactly once.
C1_ScriptsRecorded ==
  ScriptsCreated =>
    \A i \in 1..Len(wheel.entry_points) :
      LET name == DeclaredName(wheel.entry_points[i])
          exe == IndexOf(b.files, "Scripts/" \o name \o ".exe")
          script == IndexOf(b.files, "Scripts/" \o name \o "-script.py")
      IN
      IF Env.platform = "win"
      THEN exe # 0 /\ script # 0 /\ exe < script
      ELSE Cardinality({k \in 1..Len(b.files) : b.files[k] = "bin/" \o name}) = 1


(***************************************************************************)
(* Functions called on their own: args holds the arguments, ret what the   *)
(* call returned, and main() is not running.                               *)
(***************************************************************************)

\* Every target main() converts for.
TargetEnvs ==
  {[python_version |-> PYTHON_VERSIONS[v], platform |-> PLATFORM_PAIRS[p][1],
    bitness |-> PLATFORM_PAIRS[p][2]] :
     v \in 1..Len(PYTHON_VERSIONS), p \in 1..Len(PLATFORM_PAIRS)}

\* A well-formed wheel with the given RECORD.
WheelWithRecord(record) ==
  Wheel(<<ModuleDir, DistInfoDir("p-1.dist-info", FALSE)>>, METADATA_lines,
        WHEEL_lines("1.0", "true", <<"py3-none-any">>), record, <<>>)

\* The state of main() while a function is called on its own.
Idle ==
  /\ wheel = WheelWithRecord(RECORD_lines)
  /\ err = NoError
  /\ td = "none"
  /\ metadata = <<>>
  /\ dirs = {}
  /\ outfiles = <<>>
  /\ pi = 1
  /\ compat = <<>>
  /\ vi = 1
  /\ b = NoBuilder
  /\ built = <<>>

\* The call returns value (or raises what value holds).
Returns(value) ==
  /\ pc = "call"
  /\ pc' = "returned"
  /\ ret' = value
  /\ UNCHANGED <<wheel, err, td, metadata, dirs, outfiles, pi, compat, vi, b,
                 built, args>>

\* The longest RECORD of a call of write_pep376_record on its own.
MaxRows == 2

\* Rows of a wheel's RECORD: under <x>.data/data/, with an empty path
\* component, with nothing after data/, and outside of <x>.data/data/.
RecordRowPool ==
  {"p/i.py,sha256=a1,10",
   "mypkg.data/data/share/x,sha256=b2,20",
   "mypkg.data/data//etc/y,sha256=c3,30",
   ".data/data/z,sha256=d4,40",
   "mypkg.data/data/,,",
   "mypkg.data/data,,",
   "mypkg.data/scripts/s,sha256=e5,50",
   "q/mypkg.data/data/w,sha256=f6,60",
   "p-1.dist-info/RECORD,,"}

InitRecord ==
  /\ Idle
  /\ pc = "call"
  /\ args \in [record : SeqsUpTo(RecordRowPool, MaxRows),
               extra : {<<>>, <<<<"bin/mytool", "sha256=77", 111>>>>},
               env : TargetEnvs]
  /\ ret = <<>>

\* pb.write_pep376_record(tf), for a builder that has written extra rows
CallWritePep376Record ==
  Returns(write_pep376_record(
            [PackageBuilder_init EXCEPT !.py_record_extra = args.extra],
            WheelWithRecord(args.record), args.env))

SpecRecord == InitRecord /\ [][CallWritePep376Record]_vars

\* The lines of text that csv.writer wrote, without their line ends.
WrittenLines(text) ==
  LET ls == Split(text, "\n") IN
  [i \in 1..(Len(ls) - 1) |-> SubSeq(ls[i], 1, Len(ls[i]) - 1)]

\* The lines of the RECORD the call wrote to the tar file.
InstalledLines == WrittenLines(ret.b.tf[Len(ret.b.tf)].content)

\* The first field of a RECORD row, and the rest of the row from its comma.
RowPath(line) == SubSeq(line, 1, Find(line, ",") - 1)

RowRest(line) == SubSeq(line, Find(line, ","), Len(line))

\* path is <x>.data/data/<rest>, for a directory name <x>.data
UnderDataData(path) ==
  \E n \in 0..Len(path) :
    /\ Count(SubSeq(path, 1, n), "/") = 0
    /\ StartsWith(SubSeq(path, n + 1, Len(path)), ".data/data/")

\* <rest> of a path <x>.data/data/<rest>
DataRest(path) == SubSeq(path, Find(path, "/") + 6, Len(path))

\* s without the slashes that directly follow a slash
Squeeze(s) ==
  LET keep == {i \in 1..Len(s) : ~(i > 1 /\ At(s, i) = "/" /\ At(s, i - 1) = "/")}
      nth(k) == CHOOSE i \in keep : Cardinality({j \in keep : j < i}) = k - 1
      RECURSIVE cat(_)
      cat(k) == IF k > Cardinality(keep) THEN "" ELSE At(s, nth(k)) \o cat(k + 1)
  IN cat(1)

\* The call was for a target that is not Windows, and it wrote a RECORD.
RecordWrittenNotWin ==
  pc = "returned" /\ args.env.platform # "win" /\ ret.err = NoError

\* C2 as amended: for every target that is not Windows, a row of the
\* wheel's RECORD whose path is <x>.data/data/<rest> is written with the
\* path ../../../<rest>, less the slashes of <rest> that start it or
\* directly follow a slash, and with hash and size unchanged; every other
\* row of the wheel's RECORD is written unchanged, at the same position.
C2_RecordRewritten ==
  RecordWrittenNotWin =>
    /\ Len(InstalledLines) >= Len(args.record)
    /\ \A i \in 1..Len(args.record) :
         LET line == args.record[i] IN
         InstalledLines[i] =
           IF UnderDataData(RowPath(line))
           THEN Squeeze("../../../" \o DataRest(RowPath(line))) \o RowRest(line)
           ELSE line

\* C2 witness: a build for linux has written the row of
\* mypkg.data/data/share/x as ../../../share/x, after a row it left alone.
C2_Witness ==
  /\ RecordWrittenNotWin
  /\ args.env.platform = "linux"
  /\ args.record = <<"p/i.py,sha256=a1,10", "mypkg.data/data/share/x,sha256=b2,20">>
  /\ InstalledLines[1] = "p/i.py,sha256=a1,10"
  /\ InstalledLines[2] = "../../../share/x,sha256=b2,20"

\* C2 as claimed: for every target that is not Windows, a row whose path is
\* <x>.data/data/<rest> is written with the path ../../<rest>, hash and
\* size unchanged, and every other row is written unchanged.
C2_AsClaimed ==
  RecordWrittenNotWin =>
    /\ Len(InstalledLines) >= Len(args.record)
    /\ \A i \in 1..Len(args.record) :
         LET line == args.record[i] IN
         InstalledLines[i] =
           IF UnderDataData(RowPath(line))
           THEN "../../" \o DataRest(RowPath(line)) \o RowRest(line)
           ELSE line


\* The marker texts of the calls of eval_env_marker on its own: every
\* modelled expression, and some that open with a blank, as the text after
\* the `; ` of a requirement does.
MarkerTexts ==
  {[expr |-> e, marker |-> Unparse(e)] : e \in MarkerExprs}
  \cup {[expr |-> e, marker |-> " " \o Unparse(e)] : e \in JoinedComparisons}

InitMarker ==
  /\ Idle
  /\ pc = "call"
  /\ args \in {[expr |-> m.expr, marker |-> m.marker, env |-> e] :
                 m \in MarkerTexts, e \in TargetEnvs}
  /\ ret = <<>>

\* eval_env_marker(s, python_version, platform, bitness)
CallEvalEnvMarker == Returns(eval_env_marker(args.marker, args.env))

SpecMarker == InitMarker /\ [][CallEvalEnvMarker]_vars

\* The fixed vocabulary of section 4.2.
Vocabulary ==
  {"python_version", "python_full_version", "sys.platform", "os.name",
   "platform.version", "platform.machine", "platform.python_implementation"}

\* The identifiers and attributes of an expression.
RECURSIVE OperandsOf(_)
OperandsOf(node) ==
  CASE node.node \in {"Name", "Attribute"} -> {node}
    [] node.node = "Str" -> {}
    [] node.node = "Compare" -> OperandsOf(node.left) \cup OperandsOf(node.right)
    [] node.node = "BoolOp" ->
         UNION {OperandsOf(node.values[i]) : i \in 1..Len(node.values)}

OverVocabulary(expr) == \A o \in OperandsOf(expr) : Unparse(o) \in Vocabulary

\* expr is a comparison, or comparisons joined by and, or by or.
RECURSIVE IsComparison(_)
IsComparison(expr) ==
  \/ expr.node = "Compare"
  \/ /\ expr.node = "BoolOp"
     /\ \A i \in 1..Len(expr.values) : IsComparison(expr.values[i])

\* The call returned a boolean, and raised nothing.
ReturnedBool == ret.err = NoError /\ ret.val.type = "bool"

\* C3 as amended: eval_env_marker returns a boolean for a marker that is a
\* comparison, or comparisons joined by and/or, over the fixed vocabulary
\* and that does not open with a blank; for a linux target the marker
\* sys.platform == 'linux' is true, and for python_version "3.6" the marker
\* python_version < '3' is false; a marker with an identifier or attribute
\* outside the fixed vocabulary yields an error rather than a boolean.
C3_MarkerEvaluated ==
  pc = "returned" =>
    /\ (OverVocabulary(args.expr) /\ IsComparison(args.expr)
        /\ args.marker = Unparse(args.expr)) => ReturnedBool
    /\ (args.marker = "sys.platform == 'linux'" /\ args.env.platform = "linux")
         => ReturnedBool /\ ret.val.b
    /\ (args.marker = "python_version < '3'" /\ args.env.python_version = "3.6")
         => ReturnedBool /\ ~ret.val.b
    /\ ~OverVocabulary(args.expr) => ret.err # NoError

\* C3 witness: for a linux target sys.platform == 'linux' was found true.
C3_Witness ==
  /\ pc = "returned"
  /\ args.env.platform = "linux"
  /\ args.marker = "sys.platform == 'linux'"
  /\ ReturnedBool
  /\ ret.val.b

\* C3 as claimed: eval_env_marker returns a boolean for a marker (a
\* comparison, or comparisons joined by and/or, given without a blank before
\* it) over the fixed vocabulary; for a linux target sys_platform == 'linux'
\* is true, and for python_version "3.6" python_version < '3' is false; a
\* marker with an identifier or attribute outside the fixed vocabulary
\* yields an error.
C3_AsClaimed ==
  pc = "returned" =>
    /\ (OverVocabulary(args.expr) /\ IsComparison(args.expr)
        /\ args.marker = Unparse(args.expr)) => ReturnedBool
    /\ (args.marker = "sys_platform == 'linux'" /\ args.env.platform = "linux")
         => ReturnedBool /\ ret.val.b
    /\ (args.marker = "python_version < '3'" /\ args.env.python_version = "3.6")
         => ReturnedBool /\ ~ret.val.b
    /\ ~OverVocabulary(args.expr) => ret.err # NoError


\* A build was aborted by an entry point with other than one colon, or by a
\* subdirectory of .data that is not supported, and main() has stopped.
BuildAborted ==
  /\ pc = "error"
  /\ \/ err.type = "ValueError" /\ StartsWith(err.msg, "Bad entry point")
     \/ err.type = "NotImplementedError"

\* C4: once main() has stopped on a build aborted by a bad entry point or
\* by an unsupported subdirectory of .data, every output file that exists is
\* a complete archive: none is left holding part of one.
C4_NoPartialArchive ==
  BuildAborted => \A f \in DOMAIN outfiles : outfiles[f] = "complete"

\* The top-level entries of the wheel whose name ends in .dist-info.
DistInfoEntries ==
  {i \in 1..Len(wheel.root) : EndsWith(wheel.root[i].name, ".dist-info")}

\* The wheel has no .dist-info entry, more than one, or a single one that
\* is not a directory.
NoDistInfoDir ==
  \/ Cardinality(DistInfoEntries) # 1
  \/ \E i \in DistInfoEntries : ~wheel.root[i].is_dir

\* C6: when the wheel has no top-level entry ending in .dist-info, more
\* than one, or a single one that is not a directory, the construction of
\* WheelContents, which locates the entry, fails, and with BadWheelError.
C6_BadWheelRaised ==
  (pc # "start" /\ NoDistInfoDir) => (pc = "error" /\ err.type = "BadWheelError")

\* WHEEL declares Root-Is-Purelib with a value that is not "true" in any
\* case of letters.
NotPurelib ==
  \E i \in 1..Len(wheel.WHEEL) :
    /\ StartsWith(wheel.WHEEL[i], "Root-Is-Purelib:")
    /\ lower(strip(SubSeq(wheel.WHEEL[i], 17, Len(wheel.WHEEL[i])))) # "true"

\* The .dist-info entry main() reads WHEEL from is a directory.
WheelFileRead ==
  \E i \in DistInfoEntries :
    /\ wheel.root[i].is_dir
    /\ \A j \in DistInfoEntries : i <= j

\* C7: for a wheel whose WHEEL file declares Root-Is-Purelib with a value
\* other than "true", main() never gets past wc.check(): no output
\* directory is ever created and no output file opened, for any target, and
\* the exception that ends the run is a BadWheelError.
C7_PlatlibRejectedFirst ==
  (NotPurelib /\ WheelFileRead) =>
    /\ pc \in {"start", "check", "error"}
    /\ dirs = {}
    /\ outfiles = <<>>
    /\ pc = "error" => err.type = "BadWheelError"

\* C7 witness: the run of a well-formed wheel that declares
\* Root-Is-Purelib: false has ended in wc.check(), with nothing created.
C7_Witness ==
  /\ NotPurelib
  /\ Cardinality(DistInfoEntries) = 1
  /\ WheelFileRead
  /\ pc = "error"
  /\ err = Raise("BadWheelError",
                 "Can't currently autoconvert packages with platlib")
  /\ dirs = {}
  /\ outfiles = <<>>


\* The most Classifier fields of the METADATA of a call of identify_license
\* on its own.
MaxClassifiers == 2

\* Values of the License field: licenses, the empty value, and unknown in
\* three spellings.
LicenseValues == {"MIT", "Proprietary", "", "UNKNOWN", "unknown", "Unknown"}

\* Values of Classifier fields: three of the license table, a license that
\* is not in it, and one that names no license.
ClassifierValues ==
  {"License :: OSI Approved :: MIT License",
   "License :: OSI Approved :: BSD License",
   "License :: OSI Approved :: GNU Lesser General Public License v3 (LGPLv3)",
   "License :: Other/Proprietary License",
   "Programming Language :: Python :: 3"}

\* The lines of a METADATA file with the given License and Classifier
\* fields.
LicenseMetadata(license, classifiers) ==
  <<"Name: p", "Version: 1">>
  \o [i \in 1..Len(license) |-> "License: " \o license[i]]
  \o [i \in 1..Len(classifiers) |-> "Classifier: " \o classifiers[i]]

InitLicense ==
  /\ Idle
  /\ pc = "call"
  /\ args \in [license : SeqsUpTo(LicenseValues, 1),
               classifiers : SeqsUpTo(ClassifierValues, MaxClassifiers)]
  /\ ret = <<>>

\* identify_license(wc.metadata), for the METADATA file of the wheel
CallIdentifyLicense ==
  Returns(identify_license(
            _read_metadata(LicenseMetadata(args.license, args.classifiers)).res))

SpecLicense == InitLicense /\ [][CallIdentifyLicense]_vars

\* The classifiers of the call that the license table holds, by position.
LicenseClassifiers ==
  {i \in 1..Len(args.classifiers) :
     args.classifiers[i] \in DOMAIN _license_classifiers}

\* C5: identify_license returns the License value verbatim only when the
\* field is present, not empty and not "unknown" in any case of letters;
\* otherwise it returns the short identifier of the first Classifier found
\* in the license table, and "UNKNOWN" when no classifier is in the table.
C5_LicenseIdentified ==
  pc = "returned" =>
    ret = IF /\ args.license # <<>>
             /\ args.license[1] # ""
             /\ lower(args.license[1]) # "unknown"
          THEN args.license[1]
          ELSE IF LicenseClassifiers # {}
          THEN _license_classifiers[
                 args.classifiers[CHOOSE i \in LicenseClassifiers :
                                    \A j \in LicenseClassifiers : i <= j]]
          ELSE "UNKNOWN"


\* The most Tag fields of the WHEEL file of a call of
\* filter_compatible_pythons on its own.
MaxTags == 2

\* Values of Requires-Python: the forms the filter recognises, and forms it
\* does not.
RequiresPythonValues ==
  {">=3.6", "3", ">3", "~=3.5", "<3", "<3.0", ">=2.7", "==3.6", "<3.5", "2.7"}

\* Values of Tag fields.
TagValues ==
  {"py3-none-any", "py2-none-any", "py2.py3-none-any",
   "cp36-cp36m-linux_x86_64", "py3-none-win32"}

\* Lists of candidate versions.
CandidateLists ==
  {PYTHON_VERSIONS, <<"3.6", "2.7">>, <<"2.7", "3.6", "2.6", "2.7">>, <<>>}

InitPythons ==
  /\ Idle
  /\ pc = "call"
  /\ args \in [requires_python : SeqsUpTo(RequiresPythonValues, 1),
               tags : SeqsUpTo(TagValues, MaxTags),
               versions : CandidateLists]
  /\ ret = <<>>

\* wc.filter_compatible_pythons(versions), for a wheel with the given
\* Requires-Python and Tag fields
CallFilterCompatiblePythons ==
  LET w == Wheel(<<ModuleDir, DistInfoDir("p-1.dist-info", FALSE)>>,
                 <<"Name: p", "Version: 1">>
                 \o [i \in 1..Len(args.requires_python) |->
                       "Requires-Python: " \o args.requires_python[i]],
                 WHEEL_lines("1.0", "true", args.tags), RECORD_lines, <<>>)
  IN Returns(filter_compatible_pythons(w, WheelContents_init(w).res,
                                       args.versions))

SpecPythons == InitPythons /\ [][CallFilterCompatiblePythons]_vars

\* Requires-Python is present and opens with one of the forms taken to
\* mean Python 3 only; it is present and is one of the forms taken to mean
\* Python 2 only.
RequiresPython3 ==
  /\ args.requires_python # <<>>
  /\ \E pre \in {"3", ">3", ">=3", "~=3"} :
       StartsWith(args.requires_python[1], pre)

RequiresPython2 ==
  args.requires_python # <<>> /\ args.requires_python[1] \in {"<3", "<3.0"}

\* What comes before the first hyphen of every tag is prefix, and there is
\* a tag.
AllTagsAre(prefix) ==
  /\ args.tags # <<>>
  /\ \A i \in 1..Len(args.tags) :
       SubSeq(args.tags[i], 1, Find(args.tags[i], "-") - 1) = prefix

Is2x(version) == StartsWith(version, "2.")

IsNot2x(version) == ~Is2x(version)

\* C8: filter_compatible_pythons returns the candidates, in their order,
\* that this decision order keeps: a Requires-Python of a Python-3-only
\* form removes the 2.x candidates and one of a Python-2-only form keeps
\* only them; with Requires-Python absent or of no recognised form, tags
\* that are all py3 remove the 2.x candidates and tags that are all py2
\* keep only them; otherwise every candidate is kept.  The call returns
\* whenever Requires-Python is recognised or the WHEEL file has a Tag.
C8_PythonsFiltered ==
  pc = "returned" =>
    /\ (RequiresPython3 \/ RequiresPython2 \/ args.tags # <<>>)
         => ret.err = NoError
    /\ ret.err = NoError =>
         ret.res =
           IF RequiresPython3 THEN SelectSeq(args.versions, IsNot2x)
           ELSE IF RequiresPython2 THEN SelectSeq(args.versions, Is2x)
           ELSE IF AllTagsAre("py3") THEN SelectSeq(args.versions, IsNot2x)
           ELSE IF AllTagsAre("py2") THEN SelectSeq(args.versions, Is2x)
           ELSE args.versions
    /\ (args.requires_python = <<">=3.6">> /\ args.versions = <<"3.6", "2.7">>)
         => ret.res = <<"3.6">>
    /\ (args.requires_python = <<>> /\ AllTagsAre("py2")
        /\ args.versions = <<"3.6", "2.7">>) => ret.res = <<"2.7">>

\* C8 witness: a Requires-Python of <3 has decided against tags that are
\* all py3, and only the 2.x candidates were returned.
C8_Witness ==
  /\ pc = "returned"
  /\ args.requires_python = <<"<3">>
  /\ args.tags = <<"py3-none-any">>
  /\ args.versions = <<"3.6", "2.7">>
  /\ ret.res = <<"2.7">>


\* The most requirements of a call of
\* requires_dist_to_conda_requirements on its own.
MaxReqs == 2

\* Requires-Dist values: without a marker, with a marker right after the
\* semicolon, and with a blank between the semicolon and the marker.
RequirementValues ==
  {"foo (>=1.0)",
   "bar",
   "baz (<2,>=1);python_version < '3'",
   "qux;sys.platform == 'win32' or python_version >= '3'",
   "quux (>=1.0) ; python_version >= '3'",
   "win (>0); sys.platform == 'win32'"}

InitReqs ==
  /\ Idle
  /\ pc = "call"
  /\ args \in [reqs : SeqsUpTo(RequirementValues, MaxReqs), env : TargetEnvs]
  /\ ret = <<>>

\* requires_dist_to_conda_requirements(reqs, python_version, platform,
\* bitness)
CallRequiresDistToCondaRequirements ==
  Returns(requires_dist_to_conda_requirements(args.reqs, args.env))

SpecReqs == InitReqs /\ [][CallRequiresDistToCondaRequirements]_vars

\* The specifier of a requirement, before its first semicolon, and its
\* marker, after it and after the blanks that follow the semicolon.
SpecifierOf(req) ==
  IF Find(req, ";") = 0 THEN req ELSE SubSeq(req, 1, Find(req, ";") - 1)

MarkerOf(req) == LStrip(SubSeq(req, Find(req, ";") + 1, Len(req)))

\* The requirement has no marker, or its marker is true for the target.
Applies(req) ==
  \/ Find(req, ";") = 0
  \/ eval_env_marker(MarkerOf(req), args.env) = [err |-> NoError, val |-> PyBool(TRUE)]

\* s without its parentheses
NoParens(s) ==
  LET keep == {i \in 1..Len(s) : At(s, i) \notin {"(", ")"}}
      nth(k) == CHOOSE i \in keep : Cardinality({j \in keep : j < i}) = k - 1
      RECURSIVE cat(_)
      cat(k) == IF k > Cardinality(keep) THEN "" ELSE At(s, nth(k)) \o cat(k + 1)
  IN cat(1)

\* C9: requires_dist_to_conda_requirements returns, in input order and
\* without deduplication, exactly the entries that have no marker or whose
\* marker is true for the target, each as its specifier, the part before the
\* first semicolon, with every parenthesis removed; an entry whose marker is
\* false contributes nothing.
C9_RequirementsTranslated ==
  pc = "returned" =>
    LET kept == SelectSeq(args.reqs, Applies) IN
    /\ ret.err = NoError
    /\ ret.res = [i \in 1..Len(kept) |-> NoParens(SpecifierOf(kept[i]))]


(***************************************************************************)
(* A repeated build: main()'s inner loop body run twice for one target,    *)
(* each time with a new PackageBuilder, from one extracted wheel           *)
(***************************************************************************)

\* The wheels that pass WheelContents and wc.check().
CheckedWheels ==
  {w \in Wheels :
     /\ WheelContents_init(w).err = NoError
     /\ check(w, WheelContents_init(w).res) = NoError}

InitRebuild ==
  /\ wheel \in CheckedWheels
  /\ pc = "rebuild"
  /\ err = NoError
  /\ td = "live"
  /\ metadata = WheelContents_init(wheel).res
  /\ pi \in 1..Len(PLATFORM_PAIRS)
  /\ dirs = {OutDir}
  /\ outfiles = <<>>
  /\ compat = filter_compatible_pythons(wheel, metadata, PYTHON_VERSIONS).res
  /\ vi \in 1..Len(compat)
  /\ b = NoBuilder
  /\ built = <<>>
  /\ args = <<>>
  /\ ret = <<>>

\* Rebuild as it would be if files, has_prefix_files and py_record_extra
\* were attributes of the class PackageBuilder, shared by every builder
Rebuild_shared ==
  /\ pc = "rebuild"
  /\ Len(built) < 2
  /\ b' = [b EXCEPT !.tf = <<>>]
  /\ outfiles' = (OutFile :> "open")
  /\ pc' = "add_module"
  /\ UNCHANGED <<wheel, err, td, metadata, dirs, pi, compat, vi, built, args,
                 ret>>

\* pb = PackageBuilder(wc, py_version, platform, bitness), and the output
\* file opened for writing, emptied if it is there
Rebuild ==
  /\ pc = "rebuild"
  /\ Len(built) < 2
  /\ b' = PackageBuilder_init
  /\ outfiles' = (OutFile :> "open")
  /\ pc' = "add_module"
  /\ UNCHANGED <<wheel, err, td, metadata, dirs, pi, compat, vi, built, args,
                 ret>>

\* build returns: the archive is complete, and is kept for the comparison.
Rebuilt ==
  /\ pc = "close"
  /\ built' = Append(built, b.tf)
  /\ outfiles' = [outfiles EXCEPT ![OutFile] = "complete"]
  /\ pc' = "rebuild"
  /\ UNCHANGED <<wheel, err, td, metadata, dirs, pi, compat, vi, b, args, ret>>

NextRebuild ==
  \/ Rebuild
  \/ Build
  \/ Rebuilt

SpecRebuild == InitRebuild /\ [][NextRebuild]_vars

RunStopped == pc \in {"done", "error"}

\* The output file of the build for the p-th pair and the v-th compatible
\* Python version.
OutFileOf(p, v) ==
  PLATFORM_PAIRS[p][1] \o "-" \o PLATFORM_PAIRS[p][2] \o "/"
  \o metadata["Name"][1] \o "-" \o metadata["Version"][1]
  \o "-py" \o Remove(compat[v], ".") \o "_0.tar.bz2"

\* The build for every (platform, bitness, Python version) has completed.
AllBuildsCompleted ==
  /\ pi > Len(PLATFORM_PAIRS)
  /\ \A p \in 1..Len(PLATFORM_PAIRS), v \in 1..Len(compat) :
       /\ OutFileOf(p, v) \in DOMAIN outfiles
       /\ outfiles[OutFileOf(p, v)] = "complete"

\* C11: in every run of main() the temporary directory is released by the
\* time the run has stopped, it is released only after the build for every
\* (platform, bitness, Python version) has completed, and once it is
\* released no operation takes another step (none releases it again, none
\* reads it).
C11_TempDirReleasedOnce ==
  /\ [](RunStopped => td = "released")
  /\ [](td = "released" => AllBuildsCompleted)
  /\ [][td # "released"]_vars


(***************************************************************************)
(* The files list and the archive                                          *)
(***************************************************************************)

\* main() is inside build, or build has just returned.
Building ==
  pc \in {"add_module", "create_scripts", "write_pep376_record", "write_index",
          "write_has_prefix_list", "write_files_list", "close"}

\* The names of the members written to the archive so far, in write order.
TfNames == [i \in 1..Len(b.tf) |-> b.tf[i].name]

\* The place of the first member named path in the archive, 0 when no
\* member has that name.
WrittenAt(path) == IndexOf(TfNames, path)

\* C12: during build, any two different paths of self.files that have both
\* been written to the archive stand in self.files in the order in which
\* their members were written: the first precedes the second in self.files
\* exactly when its member was written before the other's.
C12_FilesInWriteOrder ==
  Building =>
    \A i, j \in 1..Len(b.files) :
      (/\ b.files[i] # b.files[j]
       /\ WrittenAt(b.files[i]) # 0
       /\ WrittenAt(b.files[j]) # 0)
      => (i < j <=> WrittenAt(b.files[i]) < WrittenAt(b.files[j]))


(***************************************************************************)
(* The rows of RECORD for generated scripts                                *)
(***************************************************************************)

\* write_pep376_record has returned in the build under way.
RecordWritten ==
  pc \in {"write_index", "write_has_prefix_list", "write_files_list", "close"}

\* The name of the RECORD member of the archive.
RecordPath ==
  site_packages_path(Env) \o find_dist_info(wheel.root).x.name \o "/RECORD"

\* The lines of the RECORD written to the archive.
RecordLines == WrittenLines(b.tf[WrittenAt(RecordPath)].content)

\* The scripts and launchers written to the archive, in write order: the
\* regular files under the scripts path of the target.
GeneratedMembers ==
  SelectSeq(b.tf, LAMBDA m : m.type = "file"
                             /\ StartsWith(m.name, scripts_path(Env)))

\* The prefix the written RECORD gives the data row p.data/data/share/x.
DataRowPrefix ==
  LET path == RowPath(RecordLines[2])
  IN SubSeq(path, 1, Len(path) - Len("/share/x"))

\* C13: the RECORD a build writes holds one row for every row of the
\* wheel's RECORD, with that row's hash and size, and after them exactly
\* one row for every script and launcher create_scripts generated (one for
\* an entry point when the target is not Windows, two when it is), in the
\* order they were generated; the row's path is the member's path behind
\* the prefix the data rows were given, its hash and size are those of the
\* member's content.
C13_ScriptRowsAppended ==
  (RecordWritten /\ wheel.RECORD[2] = "p.data/data/share/x,sha256=b2,20") =>
    LET n == Len(wheel.RECORD)
        gen == GeneratedMembers
    IN
    /\ Len(gen)
         = Len(wheel.entry_points) * (IF Env.platform = "win" THEN 2 ELSE 1)
    /\ Len(RecordLines) = n + Len(gen)
    /\ \A i \in 1..n : RowRest(RecordLines[i]) = RowRest(wheel.RECORD[i])
    /\ \A k \in 1..Len(gen) :
         RecordLines[n + k] =
           DataRowPrefix \o "/" \o gen[k].name
           \o ",sha256=" \o Digest(gen[k].content)
           \o "," \o IntToStr(Len(gen[k].content))

\* C13 witness: a build for Windows of a wheel with two entry points has
\* written a RECORD whose last four rows are those of mytool's script and
\* launcher and of ok's script and launcher.
C13_Witness ==
  /\ RecordWritten
  /\ Env.platform = "win"
  /\ wheel.entry_points = <<"mytool = mypkg.cli:main", "ok = m:f">>
  /\ Len(RecordLines) = 7
  /\ RowPath(RecordLines[4]) = "../../Scripts/mytool-script.py"
  /\ RowPath(RecordLines[5]) = "../../Scripts/mytool.exe"
  /\ RowPath(RecordLines[6]) = "../../Scripts/ok-script.py"
  /\ RowPath(RecordLines[7]) = "../../Scripts/ok.exe"


(***************************************************************************)
(* info/files, info/has_prefix and the members of the archive              *)
(***************************************************************************)

\* build has returned without raising.
BuildSucceeded == pc = "close"

\* The lines of a manifest written to the archive; none when it is empty.
ManifestLines(name) ==
  LET content == b.tf[WrittenAt(name)].content
  IN IF content = "" THEN <<>> ELSE Split(content, "\n")

\* The paths info/files lists, in order.
ListedPaths == ManifestLines("info/files")

\* The paths info/has_prefix lists: what follows `<prefix> text ` on a line.
PrefixPaths ==
  {SubSeq(line, Len(PREFIX \o " text ") + 1, Len(line)) :
     line \in {ManifestLines("info/has_prefix")[i] :
                 i \in 1..Len(ManifestLines("info/has_prefix"))}}

\* The places in the archive of the regular files outside info/.
PayloadMembers ==
  {i \in 1..Len(b.tf) :
     b.tf[i].type = "file" /\ ~StartsWith(b.tf[i].name, "info/")}

\* C14: after a successful build every path info/files lists is the name
\* of exactly one regular file of the archive outside info/, every such
\* file is listed by info/files exactly once, and every path
\* info/has_prefix lists is listed by info/files.
C14_FilesMatchArchive ==
  BuildSucceeded =>
    /\ \A k \in 1..Len(ListedPaths) :
         Cardinality({i \in PayloadMembers : b.tf[i].name = ListedPaths[k]}) = 1
    /\ \A i \in PayloadMembers :
         Cardinality({k \in 1..Len(ListedPaths) :
                        ListedPaths[k] = b.tf[i].name}) = 1
    /\ \A p \in PrefixPaths : \E k \in 1..Len(ListedPaths) : ListedPaths[k] = p

=============================================================================
